---- MODULE Spec2Model ----
(***************************************************************************)
(* freecad-to-png.py: one invocation of the command-line script, from the  *)
(* command line to the process exit.                                       *)
(*                                                                         *)
(* A path is a sequence of one-character strings, so that the path         *)
(* functions of os.path (POSIX flavour) are computed on the characters.    *)
(* The two FreeCAD path options are never parsed by the script and are     *)
(* kept as one-symbol paths.                                               *)
(*                                                                         *)
(* Every call in the try block of main() (the five host-application calls  *)
(* and the print of the success message, lines 126-142) either returns or  *)
(* raises an Exception, which the handler at line 144 catches.             *)
(* os.makedirs and the import of the bindings, outside that block, may     *)
(* raise too; an exception nobody catches ends the process with a          *)
(* traceback on sys.stderr and exit status 1.  Interruption of the process *)
(* from outside (signals) is not part of the model.                        *)
(*                                                                         *)
(* The module runs two invocations side by side, run and twin.  They get   *)
(* the same command line except for --freecad-lib-path and                 *)
(* --freecad-mod-path, start on equal filesystems and receive the same     *)
(* answers from the host application.                                      *)
(***************************************************************************)
EXTENDS Integers, Sequences, FiniteSets

VARIABLES run, twin

vars == <<run, twin>>

-----------------------------------------------------------------------------
(* Bounds of the model *)

\* longest file name (before the extension) of an input path
MaxNameLen == 1

-----------------------------------------------------------------------------
(* Optional values: Python's None is the empty sequence, a value x is <<x>> *)

None == <<>>

Some(x) == <<x>>

-----------------------------------------------------------------------------
(* Strings *)

SEP == "/"

EXTSEP == "."

production == <<"p", "r", "o", "d", "u", "c", "t", "i", "o", "n">>

dot_png == <<".", "p", "n", "g">>

dot_fcstd == <<".", "f", "c", "s", "t", "d">>

DEFAULT_FREECAD_LIB_PATH == <<"/usr/lib/freecad-python3/lib">>

DEFAULT_FREECAD_MOD_PATH == <<"/usr/share/freecad/Mod">>

IMAGE_WIDTH == 1080

IMAGE_HEIGHT == 1080

BACKGROUND == "Transparent"

\* str.lower() on one character
LowerChar(c) ==
    CASE c = "F" -> "f"
      [] c = "C" -> "c"
      [] c = "S" -> "s"
      [] c = "T" -> "t"
      [] c = "D" -> "d"
      [] c = "A" -> "a"
      [] c = "M" -> "m"
      [] OTHER -> c

\* str.lower()
lower(p) == [i \in 1..Len(p) |-> LowerChar(p[i])]

\* str.endswith(suffix)
endswith(p, suffix) ==
    /\ Len(suffix) <= Len(p)
    /\ SubSeq(p, Len(p) - Len(suffix) + 1, Len(p)) = suffix

\* str.rfind(c), 1-based; 0 when c does not occur
rfind(p, c) ==
    LET hits == {i \in 1..Len(p) : p[i] = c}
    IN  IF hits = {} THEN 0 ELSE CHOOSE i \in hits : \A j \in hits : j <= i

\* p[i:] with a 1-based i
From(p, i) == SubSeq(p, i, Len(p))

\* p[:i] exclusive, with a 1-based i
Upto(p, i) == SubSeq(p, 1, i - 1)

\* os.path.basename (posixpath): everything after the last separator
basename(p) == From(p, rfind(p, SEP) + 1)

\* str.rstrip('/')
RECURSIVE rstrip_sep(_)
rstrip_sep(p) ==
    IF p # <<>> /\ p[Len(p)] = SEP THEN rstrip_sep(Upto(p, Len(p))) ELSE p

\* os.path.dirname (posixpath): the head up to the last separator, its
\* trailing separators stripped unless it is made of separators only
dirname(p) ==
    LET head == Upto(p, rfind(p, SEP) + 1)
    IN  IF head # <<>> /\ \E i \in 1..Len(head) : head[i] # SEP
        THEN rstrip_sep(head)
        ELSE head

\* os.path.splitext (genericpath._splitext): the extension starts at the last
\* dot of the last component, unless only dots precede it in that component
splitext(p) ==
    LET sepIndex == rfind(p, SEP)
        dotIndex == rfind(p, EXTSEP)
    IN  IF /\ dotIndex > sepIndex
           /\ \E k \in (sepIndex + 1)..(dotIndex - 1) : p[k] # EXTSEP
        THEN <<Upto(p, dotIndex), From(p, dotIndex)>>
        ELSE <<p, <<>>>>

\* os.path.join (posixpath) of two components
join(a, b) ==
    IF b # <<>> /\ b[1] = SEP THEN b
    ELSE IF a = <<>> \/ a[Len(a)] = SEP THEN a \o b
    ELSE a \o <<SEP>> \o b

\* the path and its ancestors, as os.makedirs walks them
Ancestors(p) ==
    {q \in {Upto(p, i) : i \in 1..(Len(p) + 1)} :
        /\ q # <<>>
        /\ q[Len(q)] # SEP
        /\ (Len(q) = Len(p) \/ p[Len(q) + 1] = SEP)}

-----------------------------------------------------------------------------
(* The filesystem: the paths that exist, by kind *)

\* os.path.exists
exists(fs, p) == p \in fs.dirs \/ p \in fs.files

\* os.makedirs can create p: no ancestor is taken by a file
can_makedirs(fs, p) == Ancestors(p) \cap fs.files = {}

\* os.makedirs, when it returns: p and its missing parents are directories
makedirs(fs, p) == [fs EXCEPT !.dirs = @ \cup Ancestors(p)]

\* a file can be written at p: its directory part is empty or a directory
can_write(fs, p) == dirname(p) = <<>> \/ dirname(p) \in fs.dirs

-----------------------------------------------------------------------------
(* Inputs *)

NameChars == {"m", "."}

RECURSIVE NamesOfLen(_)
NamesOfLen(n) ==
    IF n = 0 THEN {<<>>}
    ELSE {Append(w, c) : w \in NamesOfLen(n - 1), c \in NameChars}

Names == UNION {NamesOfLen(n) : n \in 0..MaxNameLen}

InputDirs == {<<>>, <<"a", ".", "m", "/">>}

Exts == {<<>>, dot_fcstd, <<".", "F", "C", "S", "t", "d">>}

InputFiles == {d \o n \o e : d \in InputDirs, n \in Names, e \in Exts}

OutputOptions == {None, Some(<<"o">>), Some(<<"d", "/", "e", "/", "o">>)}

LibOptions == {None, Some(<<"/opt/freecad/lib">>)}

ModOptions == {None, Some(<<"/opt/freecad/Mod">>)}

\* the command lines argparse accepts
GoodArgv ==
    [help : {FALSE}, input_file : {Some(p) : p \in InputFiles},
     output : OutputOptions, quiet : BOOLEAN,
     freecad_lib_path : LibOptions, freecad_mod_path : ModOptions]

\* command lines with -h/--help, and command lines without the positional
BadArgv ==
    [help : BOOLEAN, input_file : {None},
     output : {None}, quiet : BOOLEAN,
     freecad_lib_path : LibOptions, freecad_mod_path : {None}]
    \cup
    [help : {TRUE}, input_file : {Some(<<"m">> \o dot_fcstd)},
     output : {None}, quiet : {FALSE},
     freecad_lib_path : {None}, freecad_mod_path : ModOptions]

Argv == GoodArgv \cup BadArgv

\* what a host-application call, os.makedirs or print can do
Outcomes == {"ok", "Exception"}

\* what the import of the bindings can do
ImportOutcomes == {"ok", "ImportError", "Exception"}

-----------------------------------------------------------------------------
(* Steps of the script.  s is the state of one invocation:                 *)
(*   pc          the statement main() executes next ("done": exited)       *)
(*   argv        the command line                                          *)
(*   args        the namespace parse_arguments returned                    *)
(*   fs          the filesystem                                            *)
(*   sys_path    sys.path                                                  *)
(*   imported    FreeCAD and FreeCADGui are imported                       *)
(*   stdout, stderr          sys.stdout, sys.stderr                        *)
(*   origStdout, origStderr, output_png   locals of main()                 *)
(*   created     the directories os.makedirs created                       *)
(*   calls       the host-application calls made, with their results       *)
(*   msgs        what was written, and to which stream object              *)
(*   exitCode    the exit status                                           *)

\* print(..., file=stream)
print_to(s, stream, kind, path) ==
    [s EXCEPT !.msgs = Append(@, [stream |-> stream, kind |-> kind,
                                   by |-> "script", path |-> path])]

\* what argparse writes before it exits
argparse_print(s, stream, kind) ==
    [s EXCEPT !.msgs = Append(@, [stream |-> stream, kind |-> kind,
                                   by |-> "argparse", path |-> <<>>])]

\* sys.exit(code)
Exit(s, code) == [s EXCEPT !.exitCode = Some(code), !.pc = "done"]

\* an exception nobody catches: traceback on sys.stderr, exit status 1
Uncaught(s) ==
    [s EXCEPT !.msgs = Append(@, [stream |-> s.stderr, kind |-> "traceback",
                                   by |-> "interpreter", path |-> <<>>]),
              !.exitCode = Some(1), !.pc = "done"]

\* default_output with the extension split off the whole input path, so
\* that the directory of the input stays in the name
default_output_keeps_dir(input_file) ==
    join(production, splitext(input_file)[1] \o dot_png)

\* lines 67-69: the default of --output
default_output(input_file) ==
    join(production, splitext(basename(input_file))[1] \o dot_png)

\* lines 28-71.  parser.parse_args() exits with 0 after printing the help
\* and with 2 after a usage error
parse_arguments(s) ==
    LET a == s.argv
    IN  IF a.help THEN Exit(argparse_print(s, s.stdout, "help"), 0)
        ELSE IF a.input_file = None
        THEN Exit(argparse_print(s, s.stderr, "usage"), 2)
        ELSE [s EXCEPT
                !.args = Some(
                    [input_file |-> a.input_file[1],
                     output |-> IF a.output = None
                                THEN default_output(a.input_file[1])
                                ELSE a.output[1],
                     freecad_lib_path |->
                          IF a.freecad_lib_path = None
                          THEN DEFAULT_FREECAD_LIB_PATH
                          ELSE a.freecad_lib_path[1],
                     freecad_mod_path |->
                          IF a.freecad_mod_path = None
                          THEN DEFAULT_FREECAD_MOD_PATH
                          ELSE a.freecad_mod_path[1],
                     quiet |-> a.quiet]),
                !.pc = "check_input"]

\* lines 73-78 (main() does not call it: line 103 is commented out)
setup_freecad_paths(s, lib_path, mod_path) ==
    LET withLib == IF lib_path # <<>> /\ exists(s.fs, lib_path)
                   THEN Append(s.sys_path, lib_path) ELSE s.sys_path
        withMod == IF mod_path # <<>> /\ exists(s.fs, mod_path)
                   THEN Append(withLib, mod_path) ELSE withLib
    IN  [s EXCEPT !.sys_path = withMod]

\* check_input without the sys.exit(1) of line 91
check_input_no_exit(s) ==
    LET input_file == s.args[1].input_file
        t == [s EXCEPT !.pc = "check_extension"]
    IN  IF ~exists(s.fs, input_file)
        THEN print_to(t, t.stderr, "missing_input", input_file)
        ELSE t

\* lines 89-91
check_input(s) ==
    LET input_file == s.args[1].input_file
    IN  IF ~exists(s.fs, input_file)
        THEN Exit(print_to(s, s.stderr, "missing_input", input_file), 1)
        ELSE [s EXCEPT !.pc = "check_extension"]

\* check_extension that treats the wrong extension as an error
check_extension_fatal(s) ==
    LET input_file == s.args[1].input_file
    IN  IF ~endswith(lower(input_file), dot_fcstd)
        THEN Exit(print_to(s, s.stdout, "warning", input_file), 1)
        ELSE [s EXCEPT !.pc = "make_output_dir"]

\* lines 94-95
check_extension(s) ==
    LET input_file == s.args[1].input_file
        t == [s EXCEPT !.pc = "make_output_dir"]
    IN  IF ~endswith(lower(input_file), dot_fcstd)
        THEN print_to(t, t.stdout, "warning", input_file)
        ELSE t

\* make_output_dir without the call of os.makedirs
make_output_dir_no_makedirs(s, o) == [s EXCEPT !.pc = "import"]

\* lines 98-100
make_output_dir(s, o) ==
    LET output_dir == dirname(s.args[1].output)
    IN  IF output_dir # <<>> /\ ~exists(s.fs, output_dir)
        THEN IF o = "ok" /\ can_makedirs(s.fs, output_dir)
             THEN [s EXCEPT !.fs = makedirs(s.fs, output_dir),
                            !.created = Ancestors(output_dir) \ s.fs.dirs,
                            !.pc = "import"]
             ELSE Uncaught(s)
        ELSE [s EXCEPT !.pc = "import"]

\* import_freecad after the call of line 103, were it not commented out
import_freecad_with_setup(s, o) ==
    LET t == setup_freecad_paths(s, s.args[1].freecad_lib_path,
                                 s.args[1].freecad_mod_path)
    IN  IF o = "ok" THEN [t EXCEPT !.imported = TRUE, !.pc = "redirect"]
        ELSE IF o = "ImportError"
        THEN Exit(print_to(print_to(t, t.stderr, "import_error", <<>>),
                           t.stderr, "import_hint", <<>>), 1)
        ELSE Uncaught(t)

\* lines 106-112
import_freecad(s, o) ==
    IF o = "ok" THEN [s EXCEPT !.imported = TRUE, !.pc = "redirect"]
    ELSE IF o = "ImportError"
    THEN Exit(print_to(print_to(s, s.stderr, "import_error", <<>>),
                    s.stderr, "import_hint", <<>>), 1)
    ELSE Uncaught(s)

\* redirect that forgets sys.stderr
redirect_stdout_only(s) ==
    LET t == [s EXCEPT !.origStdout = s.stdout, !.origStderr = s.stderr,
                       !.pc = "showMainWindow"]
    IN  IF s.args[1].quiet THEN [t EXCEPT !.stdout = "StringIO_1"] ELSE t

\* lines 116-123
redirect(s) ==
    LET t == [s EXCEPT !.origStdout = s.stdout, !.origStderr = s.stderr,
                       !.pc = "showMainWindow"]
    IN  IF s.args[1].quiet
        THEN [t EXCEPT !.stdout = "StringIO_1", !.stderr = "StringIO_2"]
        ELSE t

\* handler without the restoration of lines 146-147
handler_no_restore(s) ==
    Exit(print_to(s, s.stderr, "processing_error", <<>>), 1)

\* handler without the sys.exit(1) of line 149: main() goes on to line 151
handler_falls_through(s) ==
    LET t == [s EXCEPT !.stdout = s.origStdout, !.stderr = s.origStderr]
    IN  Exit(print_to(t, t.stderr, "processing_error", <<>>), 0)

\* lines 144-149
handler(s) ==
    LET t == [s EXCEPT !.stdout = s.origStdout, !.stderr = s.origStderr]
    IN  Exit(print_to(t, t.stderr, "processing_error", <<>>), 1)

\* a call of the host application: what it writes goes to the current
\* sys.stdout and sys.stderr; it returns or raises
host_call(s, op, arguments, o) ==
    [s EXCEPT !.calls = Append(@, [op |-> op, args |-> arguments,
                                   result |-> o]),
              !.msgs = @ \o <<[stream |-> s.stdout, kind |-> "host_output",
                               by |-> op, path |-> <<>>],
                              [stream |-> s.stderr, kind |-> "host_output",
                               by |-> op, path |-> <<>>]>>]

\* line 126
showMainWindow(s, o) ==
    LET t == host_call(s, "showMainWindow", <<>>, o)
    IN  IF o = "ok" THEN [t EXCEPT !.pc = "openDocument"] ELSE handler(t)

\* line 129
openDocument(s, o) ==
    LET t == host_call(s, "openDocument", <<s.args[1].input_file>>, o)
    IN  IF o = "ok" THEN [t EXCEPT !.pc = "restore"] ELSE handler(t)

\* lines 130-133
restore(s) ==
    [s EXCEPT !.output_png = Some(s.args[1].output),
              !.stdout = s.origStdout, !.stderr = s.origStderr,
              !.pc = "activeView"]

\* activeView that goes straight to saveImage
activeView_skips_fitAll(s, o) ==
    LET t == host_call(s, "activeView", <<>>, o)
    IN  IF o = "ok" THEN [t EXCEPT !.pc = "saveImage"] ELSE handler(t)

\* line 134
activeView(s, o) ==
    LET t == host_call(s, "activeView", <<>>, o)
    IN  IF o = "ok" THEN [t EXCEPT !.pc = "fitAll"] ELSE handler(t)

\* line 139
fitAll(s, o) ==
    LET t == host_call(s, "fitAll", <<>>, o)
    IN  IF o = "ok" THEN [t EXCEPT !.pc = "saveImage"] ELSE handler(t)

\* line 140.  The host application writes the image when it returns, which
\* it cannot do under a directory part that is no directory
saveImage(s, o) ==
    LET r == IF can_write(s.fs, s.output_png[1]) THEN o ELSE "Exception"
        t == host_call(s, "saveImage",
                       <<s.output_png[1], IMAGE_WIDTH, IMAGE_HEIGHT,
                         BACKGROUND>>, r)
    IN  IF r = "ok"
        THEN [t EXCEPT !.fs.files = @ \cup {s.output_png[1]},
                       !.pc = "print_success"]
        ELSE handler(t)

\* lines 142 and 151
print_success(s, o) ==
    IF o = "ok"
    THEN Exit(print_to(s, s.stdout, "success", s.args[1].output), 0)
    ELSE handler(s)

-----------------------------------------------------------------------------
(* Initial states *)

\* the filesystems in which some of the ancestors of dir exist, the first
\* missing one possibly taken by a file
FileSystems(dir) ==
    LET anc == Ancestors(dir)
        below(q) == {a \in anc : Len(a) < Len(q)}
    IN  {[dirs |-> D, files |-> F] :
            <<D, F>> \in {df \in (SUBSET anc) \X (SUBSET anc) :
                /\ \A q \in df[1] : below(q) \subseteq df[1]
                /\ Cardinality(df[2]) <= 1
                /\ df[2] \cap df[1] = {}
                /\ \A q \in df[2] : below(q) \subseteq df[1]}}

\* the output path parse_arguments resolves for a command line
ResolvedOutput(a) ==
    IF a.input_file = None THEN <<>>
    ELSE IF a.output = None THEN default_output(a.input_file[1])
    ELSE a.output[1]

InstalledPaths ==
    {DEFAULT_FREECAD_LIB_PATH, DEFAULT_FREECAD_MOD_PATH}
    \cup {o[1] : o \in (LibOptions \cup ModOptions) \ {None}}

InitialState(a, fs) ==
    [pc |-> "parse_arguments", argv |-> a, args |-> None, fs |-> fs,
     sys_path |-> <<>>, imported |-> FALSE,
     stdout |-> "stdout", stderr |-> "stderr",
     origStdout |-> "unbound", origStderr |-> "unbound",
     output_png |-> None, created |-> {}, calls |-> <<>>, msgs |-> <<>>,
     exitCode |-> None]

Init ==
    \E a \in Argv, inputExists \in BOOLEAN,
       lib \in LibOptions, mod \in ModOptions :
       \E f \in FileSystems(dirname(ResolvedOutput(a))) :
          LET fs == [dirs |-> f.dirs \cup InstalledPaths,
                     files |-> f.files \cup
                               IF inputExists /\ a.input_file # None
                                  /\ a.input_file[1] # <<>>
                               THEN {a.input_file[1]} ELSE {}]
          IN  /\ run = InitialState(a, fs)
              /\ twin = InitialState([a EXCEPT !.freecad_lib_path = lib,
                                               !.freecad_mod_path = mod], fs)

-----------------------------------------------------------------------------
(* Actions: the two invocations take the same step with the same answer *)

ParseArguments ==
    /\ run.pc = "parse_arguments"
    /\ run' = parse_arguments(run)
    /\ twin' = IF twin.pc = "parse_arguments" THEN parse_arguments(twin) ELSE twin

CheckInput ==
    /\ run.pc = "check_input"
    /\ run' = check_input(run)
    /\ twin' = IF twin.pc = "check_input" THEN check_input(twin) ELSE twin

CheckExtension ==
    /\ run.pc = "check_extension"
    /\ run' = check_extension(run)
    /\ twin' = IF twin.pc = "check_extension" THEN check_extension(twin) ELSE twin

MakeOutputDir ==
    \E o \in Outcomes :
        /\ run.pc = "make_output_dir"
        /\ run' = make_output_dir(run, o)
        /\ twin' = IF twin.pc = "make_output_dir" THEN make_output_dir(twin, o) ELSE twin

ImportFreeCAD ==
    \E o \in ImportOutcomes :
        /\ run.pc = "import"
        /\ run' = import_freecad(run, o)
        /\ twin' = IF twin.pc = "import" THEN import_freecad(twin, o) ELSE twin

Redirect ==
    /\ run.pc = "redirect"
    /\ run' = redirect(run)
    /\ twin' = IF twin.pc = "redirect" THEN redirect(twin) ELSE twin

ShowMainWindow ==
    \E o \in Outcomes :
        /\ run.pc = "showMainWindow"
        /\ run' = showMainWindow(run, o)
        /\ twin' = IF twin.pc = "showMainWindow" THEN showMainWindow(twin, o) ELSE twin

OpenDocument ==
    \E o \in Outcomes :
        /\ run.pc = "openDocument"
        /\ run' = openDocument(run, o)
        /\ twin' = IF twin.pc = "openDocument" THEN openDocument(twin, o) ELSE twin

Restore ==
    /\ run.pc = "restore"
    /\ run' = restore(run)
    /\ twin' = IF twin.pc = "restore" THEN restore(twin) ELSE twin

ActiveView ==
    \E o \in Outcomes :
        /\ run.pc = "activeView"
        /\ run' = activeView(run, o)
        /\ twin' = IF twin.pc = "activeView" THEN activeView(twin, o) ELSE twin

FitAll ==
    \E o \in Outcomes :
        /\ run.pc = "fitAll"
        /\ run' = fitAll(run, o)
        /\ twin' = IF twin.pc = "fitAll" THEN fitAll(twin, o) ELSE twin

SaveImage ==
    \E o \in Outcomes :
        /\ run.pc = "saveImage"
        /\ run' = saveImage(run, o)
        /\ twin' = IF twin.pc = "saveImage" THEN saveImage(twin, o) ELSE twin

PrintSuccess ==
    \E o \in Outcomes :
        /\ run.pc = "print_success"
        /\ run' = print_success(run, o)
        /\ twin' = IF twin.pc = "print_success" THEN print_success(twin, o) ELSE twin

Next ==
    \/ ParseArguments
    \/ CheckInput
    \/ CheckExtension
    \/ MakeOutputDir
    \/ ImportFreeCAD
    \/ Redirect
    \/ ShowMainWindow
    \/ OpenDocument
    \/ Restore
    \/ ActiveView
    \/ FitAll
    \/ SaveImage
    \/ PrintSuccess

Spec == Init /\ [][Next]_vars

-----------------------------------------------------------------------------
(* What the claims speak of *)

Runs == {run, twin}

Done(s) == s.pc = "done"

Parsed(s) == s.args # None

\* the host-application operations, in the order of main()
HostOrder ==
    <<"showMainWindow", "openDocument", "activeView", "fitAll", "saveImage">>

\* the messages of one kind
MsgsOfKind(s, kind) == {i \in 1..Len(s.msgs) : s.msgs[i].kind = kind}

\* some host-application call raised
SomeCallRaised(s) == \E i \in 1..Len(s.calls) : s.calls[i].result # "ok"

\* saveImage returned
ImageSaved(s) ==
    \E i \in 1..Len(s.calls) :
        s.calls[i].op = "saveImage" /\ s.calls[i].result = "ok"

\* the five host-application calls were made and returned
SequenceCompleted(s) ==
    /\ Parsed(s)
    /\ s.imported
    /\ Len(s.calls) = Len(HostOrder)
    /\ \A i \in 1..Len(s.calls) :
          s.calls[i].op = HostOrder[i] /\ s.calls[i].result = "ok"

\* an error message was written: by the script or as a traceback
ErrorKinds ==
    {"usage", "missing_input", "import_error", "processing_error",
     "traceback"}

FailureReported(s) ==
    /\ s.exitCode = Some(1)
    /\ \E i \in 1..Len(s.msgs) : s.msgs[i].kind \in ErrorKinds

OriginalStreams(s) == s.stdout = "stdout" /\ s.stderr = "stderr"

-----------------------------------------------------------------------------
\* C1: when the input path does not exist, whatever the other flags, the
\* run writes one error naming that path to the standard error stream and
\* exits with 1, having imported nothing and called nothing of the host
\* application.
C1_MissingInput ==
    \A s \in Runs :
        (Parsed(s) /\ s.pc # "check_input"
            /\ ~exists(s.fs, s.args[1].input_file))
        => /\ Done(s)
           /\ s.exitCode = Some(1)
           /\ s.msgs = <<[stream |-> "stderr", kind |-> "missing_input",
                          by |-> "script", path |-> s.args[1].input_file]>>
           /\ ~s.imported
           /\ s.calls = <<>>
           /\ s.created = {}

C1_Witness ==
    /\ Done(run)
    /\ Parsed(run)
    /\ ~exists(run.fs, run.args[1].input_file)
    /\ run.argv.quiet
    /\ run.argv.output # None
    /\ run.argv.freecad_lib_path # None
    /\ run.argv.freecad_mod_path # None

-----------------------------------------------------------------------------
\* C2: when a step of the open/export sequence raises (one of the five
\* host-application calls, or the print of the success message), with or
\* without --quiet, the message 'Error processing file' goes to the original
\* standard error stream, sys.stdout and sys.stderr are the original streams
\* again, and the run exits with 1; no run ends with redirected streams.
SequenceRaised(s) ==
    \/ SomeCallRaised(s)
    \/ (ImageSaved(s) /\ Done(s) /\ MsgsOfKind(s, "success") = {})

C2_StreamsRestoredOnError ==
    \A s \in Runs :
        /\ \A i \in MsgsOfKind(s, "processing_error") :
              s.msgs[i].stream = "stderr"
        /\ Done(s) => OriginalStreams(s)
        /\ SequenceRaised(s)
           => /\ Done(s)
              /\ s.exitCode = Some(1)
              /\ OriginalStreams(s)
              /\ s.msgs # <<>>
              /\ s.msgs[Len(s.msgs)] =
                    [stream |-> "stderr", kind |-> "processing_error",
                     by |-> "script", path |-> <<>>]

C2_Witness ==
    /\ Done(run)
    /\ Parsed(run)
    /\ run.args[1].quiet
    /\ Len(run.calls) = 2
    /\ run.calls[2].op = "openDocument"
    /\ run.calls[2].result = "Exception"
    /\ OriginalStreams(run)

-----------------------------------------------------------------------------
\* C3: with --quiet, sys.stdout and sys.stderr are in-memory buffers while
\* showMainWindow and openDocument run, so what these two write reaches no
\* real stream; from the access to the active view on, both are the original
\* streams, and the success message goes to the original standard output.
\* Without --quiet the streams are the original ones in every state.
Buffers == {"StringIO_1", "StringIO_2"}

AfterRestore == {"activeView", "fitAll", "saveImage", "print_success", "done"}

-----------------------------------------------------------------------------
TryBlockCompleted(s) ==
    /\ SequenceCompleted(s)
    /\ s.msgs # <<>>
    /\ s.msgs[Len(s.msgs)].kind = "success"

-----------------------------------------------------------------------------
\* C5 as claimed: a run that got past the command line ends either with the
\* image written or with a failure reported (an error message and exit code
\* 1), never with neither and never with both.
C5_Original ==
    \A s \in Runs :
        (Done(s) /\ Parsed(s))
        => /\ ImageSaved(s) \/ FailureReported(s)
           /\ ~(ImageSaved(s) /\ FailureReported(s))

-----------------------------------------------------------------------------
\* C6: without -o/--output the output path is production/<stem>.png, <stem>
\* being the last component of the input path without its last extension;
\* with -o/--output it is the given value; saveImage gets that path.

\* the last component of p: what follows the last separator
LastComponent(p) ==
    CHOOSE b \in {From(p, i) : i \in 1..(Len(p) + 1)} :
        /\ \A k \in 1..Len(b) : b[k] # SEP
        /\ (Len(b) = Len(p) \/ p[Len(p) - Len(b)] = SEP)

\* e is an extension of the name b: a dot and what follows, without a
\* further dot, after a part that is not made of dots only
IsExtensionOf(e, b) ==
    /\ e # <<>>
    /\ endswith(b, e)
    /\ e[1] = EXTSEP
    /\ \A k \in 2..Len(e) : e[k] # EXTSEP
    /\ \E k \in 1..(Len(b) - Len(e)) : b[k] # EXTSEP

\* b without its last extension, if it has one
Stem(b) ==
    LET cuts == {i \in 1..Len(b) : IsExtensionOf(From(b, i), b)}
    IN  IF cuts = {} THEN b ELSE Upto(b, CHOOSE i \in cuts : TRUE)

C6_OutputPath ==
    \A s \in Runs :
        Parsed(s)
        => /\ s.args[1].output =
                 IF s.argv.output = None
                 THEN production \o <<SEP>>
                      \o Stem(LastComponent(s.argv.input_file[1])) \o dot_png
                 ELSE s.argv.output[1]
           /\ \A i \in 1..Len(s.calls) :
                 s.calls[i].op = "saveImage"
                 => s.calls[i].args[1] = s.args[1].output

C6_Witness ==
    /\ Done(run)
    /\ ImageSaved(run)
    /\ run.argv.output = None
    /\ rfind(run.args[1].input_file, SEP) > 0
    /\ splitext(run.args[1].input_file)[2] = dot_fcstd
    /\ run.args[1].output = production \o <<"/", "m">> \o dot_png

-----------------------------------------------------------------------------
\* C7: when the directory part of the output path is not empty and does not
\* exist, main() creates it with its missing parents before saveImage is
\* called; whenever saveImage is called the directory part is empty or
\* exists; when it existed already or is empty, nothing is created.

\* the run got past lines 98-100
PastMakeOutputDir(s) == s.imported \/ s.pc = "import"

C7_OutputDirectory ==
    \A s \in Runs :
        Parsed(s)
        => LET output_dir == dirname(s.args[1].output)
               existed == \/ output_dir \in s.fs.dirs \ s.created
                          \/ output_dir \in s.fs.files
           IN  /\ s.created \subseteq s.fs.dirs
               /\ (output_dir = <<>> \/ existed) => s.created = {}
               /\ s.created # {}
                  => /\ PastMakeOutputDir(s) \/ Done(s)
                     /\ output_dir \in s.created
                     /\ Ancestors(output_dir) \subseteq s.fs.dirs
               /\ PastMakeOutputDir(s)
                  => output_dir = <<>> \/ exists(s.fs, output_dir)
               /\ (s.pc = "saveImage" \/ Len(s.calls) = Len(HostOrder))
                  => output_dir = <<>> \/ exists(s.fs, output_dir)
               /\ (PastMakeOutputDir(s) /\ output_dir # <<>> /\ ~existed)
                  => s.created # {}

C7_Witness ==
    /\ ImageSaved(run)
    /\ run.created = {<<"d">>, <<"d", "/", "e">>}

-----------------------------------------------------------------------------
\* C8: for an existing input whose name does not end in .fcstd, whatever
\* the case of the letters, main() prints a warning and goes on as it does
\* for a matching name: the check changes nothing but the messages, and the
\* warning alone never makes the run exit with 1.
Mismatch(s) == ~endswith(lower(s.args[1].input_file), dot_fcstd)

Warning(s) ==
    [stream |-> "stdout", kind |-> "warning", by |-> "script",
     path |-> s.args[1].input_file]

C8_Step ==
    run.pc = "check_extension"
    => /\ [run' EXCEPT !.msgs = run.msgs]
            = [run EXCEPT !.pc = "make_output_dir"]
       /\ run'.msgs = IF Mismatch(run) THEN Append(run.msgs, Warning(run))
                      ELSE run.msgs

C8_State ==
    \A s \in Runs :
        /\ MsgsOfKind(s, "warning") # {}
           => /\ Mismatch(s)
              /\ s.msgs[1] = Warning(s)
              /\ MsgsOfKind(s, "warning") = {1}
        /\ (Parsed(s) /\ Mismatch(s) /\ exists(s.fs, s.args[1].input_file)
               /\ s.pc \notin {"check_input", "check_extension"})
           => MsgsOfKind(s, "warning") = {1}
        /\ (Done(s) /\ s.exitCode = Some(1) /\ Parsed(s))
           => \E i \in 1..Len(s.msgs) : s.msgs[i].kind \in ErrorKinds

-----------------------------------------------------------------------------
\* C9: the host-application operations are called in the order
\* showMainWindow, openDocument(input path), activeView, fitAll,
\* saveImage(output path, 1080, 1080, 'Transparent'), each at most once, a
\* later one only after the earlier ones returned, and none after the first
\* that raised, which ends the run.
ExpectedArgs(s, op) ==
    CASE op = "openDocument" -> <<s.args[1].input_file>>
      [] op = "saveImage" -> <<s.args[1].output, 1080, 1080, "Transparent">>
      [] OTHER -> <<>>

NextOfCalls(s) ==
    IF Len(s.calls) < Len(HostOrder) THEN HostOrder[Len(s.calls) + 1]
    ELSE "print_success"

C9_CallOrder ==
    \A s \in Runs :
        /\ Len(s.calls) <= Len(HostOrder)
        /\ \A i \in 1..Len(s.calls) :
              /\ s.calls[i].op = HostOrder[i]
              /\ s.calls[i].args = ExpectedArgs(s, HostOrder[i])
              /\ i < Len(s.calls) => s.calls[i].result = "ok"
        /\ s.calls # <<>> => s.imported
        /\ SomeCallRaised(s) => Done(s)
        /\ s.pc \in {"showMainWindow", "activeView", "fitAll", "saveImage",
                     "print_success"}
           => s.pc = NextOfCalls(s)
        /\ s.pc = "openDocument" => Len(s.calls) = 1
        /\ s.pc = "restore" => Len(s.calls) = 2

C9_Witness ==
    /\ Done(run)
    /\ SequenceCompleted(run)
    /\ run.calls[5].args = <<run.args[1].output, 1080, 1080, "Transparent">>

-----------------------------------------------------------------------------
\* C10: two runs that differ only in --freecad-lib-path and
\* --freecad-mod-path are in the same state after every step, apart from the
\* two values themselves: same position, same filesystem, same calls, same
\* messages, same output path, same exit code; and sys.path stays as it was.
WithoutPaths(s) ==
    [s EXCEPT !.argv.freecad_lib_path = None,
              !.argv.freecad_mod_path = None,
              !.args = IF s.args = None THEN None
                       ELSE Some([s.args[1] EXCEPT
                                    !.freecad_lib_path = <<>>,
                                    !.freecad_mod_path = <<>>])]

====
